---- MODULE Spec2Model ----
(***************************************************************************)
(* A model of the scalar autograd engine (engine.py), the module layer     *)
(* (nn.py) and the optimizers (optim.py) of micrograd-hck.                 *)
(*                                                                         *)
(* Value objects live in `heap`, a sequence indexed by object identity:    *)
(* the i-th Value ever constructed is heap[i].  Floats are modelled by     *)
(* integers; every input below is an integer, and +, - and * on floats     *)
(* holding small integers are exact.                                       *)
(***************************************************************************)
EXTENDS Integers, Sequences, FiniteSets, TLC

\* ------------------------------------------------------------------ bounds
MaxNodes == 3            \* Values constructed in one behaviour of Spec

MaxTrainNodes == 2       \* Values constructed in one behaviour of SpecTrain
MaxTrainParams == 1      \* length of a parameter list in SpecTrain
MaxTrainSteps == 1       \* step() calls in one behaviour of SpecTrain
MaxPowNodes == 3         \* Values constructed in one behaviour of SpecPow
MaxParams == 1           \* Values constructed, and parameters managed, in SpecSGD
MaxSteps == 2            \* step() calls in one behaviour of SpecSGD
MaxWidth == 2            \* in_features and out_features of a lone Linear layer
MaxDepth == 2            \* Linear layers of an MLP
MaxCalls == 1            \* to_values() calls, and forward calls, in SpecNN
MaxAdamParams == 2       \* Values constructed, and parameters managed, in SpecAdam
MaxAdamSteps == 2        \* step() calls in one behaviour of SpecAdam
MaxReplaceParams == 1    \* Values constructed, and parameters managed, in SpecReplace
MaxReplaceSteps == 2     \* step() calls in one behaviour of SpecReplace

LeafValues == {2, 3}     \* the numbers a leaf (or a numeric operand) is built from
PowBases == {0, 1, 2}    \* the numbers a leaf is built from in SpecPow
Exponents2 == -4..4      \* twice the exponents of **: -2, -1.5, ..., 1.5, 2
LearningRates == {2}     \* lr
Momenta == {0, 2}        \* momentum
Decays == {-1, 0, 1}     \* weight_decay
Seeds == {1}             \* states of the random generator at construction
LayerSizes == {1, 2}     \* the entries of an MLP's sizes
Betas == {<<0, 0>>}      \* Adam's betas
Epsilons == {1}          \* Adam's eps
ParamValues == {2}       \* the numbers a leaf is built from in SpecTrain and SpecAdam
ReplaceBetas == {<<2, 2>>}    \* Adam's betas in SpecReplace

VARIABLES
    heap,        \* engine.py Value objects, by identity
    captured,    \* history: operand data as it was when each Value was built
    lastOp,      \* history: the kind of operation that produced the current state
    lastRoot,    \* history: the root of the backward() that produced the state
    lastTopo,    \* history: the `topo` list that backward() built
    streak,      \* history: consecutive backward() calls on lastRoot, capped at 2
    lastLog,     \* history: what the operation that produced the state did, in order
    lastCalls,   \* history: the nodes whose _backward the last backward() ran, in order
    sgd,         \* optim.py the SGD object: params, lr, momentum, weight_decay, _vel
    steps,       \* history: the step() calls made so far
    adam,        \* optim.py the Adam object: params, lr, betas, eps, _m, _v, _t
    net,         \* nn.py the module object: a Linear, or an MLP and its layers
    inputs,      \* the list returned by the last to_values()
    result,      \* history: the outcome of the last forward call
    seenParams,  \* history: the list the last parameters() call returned
    calls,       \* history: the forward calls made so far
    shelved      \* history: the optimizer state entries of the parameters that
                 \* set_parameters() removed, as they were at removal

engineVars == <<heap, captured, lastOp, lastRoot, lastTopo, streak, lastLog, lastCalls>>
sgdVars == <<sgd, steps>>
adamVars == <<adam>>
nnVars == <<net, inputs, result, seenParams, calls>>
vars == <<engineVars, sgdVars, adamVars, nnVars, shelved>>

Ids(h) == 1..Len(h)

\* ------------------------------------------------------------ Value.__init__
NewValue(d, children, o, s, t) ==
    [data |-> d, grad |-> 0, prev |-> children, op |-> o, self |-> s, other |-> t,
     exponent2 |-> 0]

\* An operand of a binary operator: a Value, or a number still to be wrapped.
Operands(h) ==
    [isValue : {TRUE}, ref : Ids(h)] \cup [isValue : {FALSE}, ref : LeafValues]

\* Value._ensure_value: the heap after wrapping, and the operand's identity.
EnsuredHeap(h, o) == IF o.isValue THEN h ELSE Append(h, NewValue(o.ref, {}, "", 0, 0))
EnsuredId(h, o) == IF o.isValue THEN o.ref ELSE Len(h) + 1

\* The Values an operation with this operand constructs.
Cost(o) == IF o.isValue THEN 0 ELSE 1

\* ------------------------------------------------------- arithmetic operators
AddOn(h, s, o) ==
    LET h1 == EnsuredHeap(h, o)
        t  == EnsuredId(h, o)
    IN  Append(h1, NewValue(h1[s].data + h1[t].data, {s, t}, "+", s, t))

NegOn(h, s) == Append(h, NewValue(-h[s].data, {s}, "neg", s, 0))

SubOn(h, s, o) ==
    LET h1 == EnsuredHeap(h, o)
        h2 == NegOn(h1, EnsuredId(h, o))
    IN  AddOn(h2, s, [isValue |-> TRUE, ref |-> Len(h2)])

MulOn(h, s, o) ==
    LET h1 == EnsuredHeap(h, o)
        t  == EnsuredId(h, o)
    IN  Append(h1, NewValue(h1[s].data * h1[t].data, {s, t}, "*", s, t))

\* ------------------------------------------------------------ Value.__pow__
\* Exponents are carried doubled (e2 = 2 * exponent), so that half-integer
\* exponents are integers here.  float ** float, on the operands for which the
\* result is an integer: base 0 with any exponent, base 1 and larger bases
\* with a whole exponent >= 0.
RECURSIVE IntPow(_, _)
IntPow(b, k) == IF k = 0 THEN 1 ELSE b * IntPow(b, k - 1)

\* 0.0 ** negative raises ZeroDivisionError.
PowRaises(b, e2) == b = 0 /\ e2 < 0

PyPow(b, e2) ==
    IF b = 0 THEN (IF e2 = 0 THEN 1 ELSE 0)
    ELSE IF b = 1 THEN 1
    ELSE IntPow(b, e2 \div 2)

\* The (base, exponent) pairs whose power and derivative are integers.
Exact(b, e2) ==
    \/ b = 0
    \/ b = 1 /\ e2 % 2 = 0
    \/ b > 1 /\ e2 % 2 = 0 /\ e2 >= 2

PowOn(h, s, e2) ==
    Append(h, [NewValue(PyPow(h[s].data, e2), {s}, "**", s, 0) EXCEPT !.exponent2 = e2])

\* ------------------------------------------------------ the _backward closures
\* Each closure is the list of its `x.grad += amount` statements, in order.
\* The amounts read operand data and out.grad when the closure RUNS.
Contribution(n, s, t, a, g) == [node |-> n, slot |-> s, to |-> t, amt |-> a, out |-> g]

AddBackward(h, n) ==
    << Contribution(n, "self", h[n].self, 1 * h[n].grad, h[n].grad),
       Contribution(n, "other", h[n].other, 1 * h[n].grad, h[n].grad) >>

NegBackward(h, n) ==
    << Contribution(n, "self", h[n].self, (-1) * h[n].grad, h[n].grad) >>

MulBackward(h, n) ==
    << Contribution(n, "self", h[n].self, h[h[n].other].data * h[n].grad, h[n].grad),
       Contribution(n, "other", h[n].other, h[h[n].self].data * h[n].grad, h[n].grad) >>

\* __pow__._backward.  The guard leaves the else branch only bases and
\* exponents on which ** does not raise.
PowGradLocal(h, n) ==
    LET b  == h[h[n].self].data
        e2 == h[n].exponent2
    IN  IF b = 0 /\ e2 - 2 < 0 THEN 0
        ELSE (e2 * PyPow(b, e2 - 2)) \div 2

PowBackward(h, n) ==
    << Contribution(n, "self", h[n].self, PowGradLocal(h, n) * h[n].grad, h[n].grad) >>

LocalBackward(h, n) ==
    CASE h[n].op = "+"   -> AddBackward(h, n)
      [] h[n].op = "**"  -> PowBackward(h, n)
      [] h[n].op = "neg" -> NegBackward(h, n)
      [] h[n].op = "*"   -> MulBackward(h, n)
      [] OTHER           -> << >>

\* Mutant of Accumulate: `x.grad = amount` instead of `x.grad += amount`.
RECURSIVE AccumulateOverwrite(_, _, _)
AccumulateOverwrite(h, cs, i) ==
    IF i > Len(cs) THEN h
    ELSE AccumulateOverwrite([h EXCEPT ![cs[i].to].grad = cs[i].amt], cs, i + 1)

RECURSIVE Accumulate(_, _, _)
Accumulate(h, cs, i) ==
    IF i > Len(cs) THEN h
    ELSE Accumulate([h EXCEPT ![cs[i].to].grad = @ + cs[i].amt], cs, i + 1)

\* ------------------------------------------------------------ Value.backward
\* build(v): `v._prev` is a set of objects, iterated in an order the program
\* does not fix, so every order of the children is a possible run.
RECURSIVE Build(_, _, _), BuildChildren(_, _, _)
Build(h, v, st) ==
    IF v \in st.visited THEN {st}
    ELSE LET st1 == [visited |-> st.visited \cup {v}, topo |-> st.topo]
         IN  { [visited |-> s.visited, topo |-> Append(s.topo, v)] :
                   s \in BuildChildren(h, h[v].prev, {st1}) }

BuildChildren(h, kids, S) ==
    IF kids = {} THEN S
    ELSE UNION { BuildChildren(h, kids \ {c}, UNION { Build(h, c, s) : s \in S }) :
                     c \in kids }

TopoOrders(h, root) ==
    { s.topo : s \in Build(h, root, [visited |-> {}, topo |-> << >>]) }

\* Mutant of ZeroGrads: every Value's grad is zeroed, not only those in topo.
RECURSIVE ZeroAllFrom(_, _)
ZeroAllFrom(h, k) ==
    IF k > Len(h) THEN h ELSE ZeroAllFrom([h EXCEPT ![k].grad = 0], k + 1)

ZeroGradsEverywhere(h, topo) == ZeroAllFrom(h, 1)

\* Mutant of ZeroGrads: the `node.grad = 0.0` loop left out.
ZeroGradsSkipped(h, topo) == h

\* for node in topo: node.grad = 0.0, from the k-th node on
RECURSIVE ZeroGradsFrom(_, _, _)
ZeroGradsFrom(h, topo, k) ==
    IF k > Len(topo) THEN h
    ELSE ZeroGradsFrom([h EXCEPT ![topo[k]].grad = 0], topo, k + 1)

ZeroGrads(h, topo) == ZeroGradsFrom(h, topo, 1)

SeedRoot(h, root) == [h EXCEPT ![root].grad = 1]

\* Mutant of Propagate: `for node in topo` instead of `for node in reversed(topo)`.
RECURSIVE PropagateLeavesFirst(_, _, _)
PropagateLeavesFirst(st, topo, i) ==
    IF i = 0 THEN st
    ELSE LET n  == topo[Len(topo) - i + 1]
             cs == LocalBackward(st.heap, n)
         IN  PropagateLeavesFirst([heap |-> Accumulate(st.heap, cs, 1),
                                   log  |-> st.log \o cs,
                                   ran  |-> Append(st.ran, n)],
                                  topo, i - 1)

\* for node in reversed(topo): node._backward(), on st = [heap, log, ran]:
\* log collects the `x.grad += amount` statements executed, ran the nodes
\* whose _backward was invoked.
RECURSIVE Propagate(_, _, _)
Propagate(st, topo, i) ==
    IF i = 0 THEN st
    ELSE LET cs == LocalBackward(st.heap, topo[i])
         IN  Propagate([heap |-> Accumulate(st.heap, cs, 1),
                        log  |-> st.log \o cs,
                        ran  |-> Append(st.ran, topo[i])],
                       topo, i - 1)

BackwardOn(h, root, topo) ==
    Propagate([heap |-> SeedRoot(ZeroGrads(h, topo), root), log |-> << >>,
               ran |-> << >>],
              topo, Len(topo))

\* ------------------------------------------------------------------ history
CapturedOf(h, i) ==
    [self  |-> IF h[i].self = 0 THEN 0 ELSE h[h[i].self].data,
     other |-> IF h[i].other = 0 THEN 0 ELSE h[h[i].other].data]

\* `captured`, extended by the Values of h constructed from the i-th on.
RECURSIVE CaptureFrom(_, _)
CaptureFrom(h, i) ==
    IF i > Len(h) THEN << >> ELSE << CapturedOf(h, i) >> \o CaptureFrom(h, i + 1)

Capture(h) == captured \o CaptureFrom(h, Len(heap) + 1)

\* The observations of a backward() last until the next operation.
Forget ==
    /\ lastRoot' = 0
    /\ lastTopo' = << >>
    /\ lastCalls' = << >>
    /\ streak' = 0

Built(h, what) ==
    /\ heap' = h
    /\ captured' = Capture(h)
    /\ lastOp' = what
    /\ lastLog' = << >>
    /\ Forget

\* ------------------------------------------------------- engine operations
Leaf(limit, values) ==
    /\ Len(heap) < limit
    /\ \E d \in values : Built(Append(heap, NewValue(d, {}, "", 0, 0)), "build")

\* self ** exponent: the power is computed before the Value is constructed,
\* so a raise leaves no new Value behind.
Pow(limit) ==
    \E s \in Ids(heap), e2 \in Exponents2 :
        /\ Len(heap) < limit
        /\ Exact(heap[s].data, e2)
        /\ IF PowRaises(heap[s].data, e2)
           THEN /\ lastOp' = "ZeroDivisionError"
                /\ lastLog' = << [node |-> s, exponent2 |-> e2] >>
                /\ Forget
                /\ UNCHANGED <<heap, captured>>
           ELSE Built(PowOn(heap, s, e2), "build")

Add(limit) ==
    \E s \in Ids(heap), o \in Operands(heap) :
        /\ Len(heap) + Cost(o) < limit
        /\ Built(AddOn(heap, s, o), "build")

Neg(limit) ==
    \E s \in Ids(heap) :
        /\ Len(heap) < limit
        /\ Built(NegOn(heap, s), "build")

Sub(limit) ==
    \E s \in Ids(heap), o \in Operands(heap) :
        /\ Len(heap) + Cost(o) + 1 < limit
        /\ Built(SubOn(heap, s, o), "build")

Mul(limit) ==
    \E s \in Ids(heap), o \in Operands(heap) :
        /\ Len(heap) + Cost(o) < limit
        /\ Built(MulOn(heap, s, o), "build")

Backward(roots) ==
    \E root \in roots :
        \E topo \in TopoOrders(heap, root) :
            LET res == BackwardOn(heap, root, topo)
            IN  /\ heap' = res.heap
                /\ lastLog' = res.log
                /\ lastCalls' = res.ran
                /\ lastTopo' = topo
                /\ lastRoot' = root
                /\ lastOp' = "backward"
                /\ streak' = IF streak > 0 /\ root = lastRoot THEN 2 ELSE 1
                /\ UNCHANGED captured

\* ------------------------------------------------------------ optim.py: SGD
NoSGD ==
    [made |-> FALSE, params |-> << >>, lr |-> 0, momentum |-> 0, weight_decay |-> 0,
     vel |-> << >>]

\* The parameter lists a caller hands over: distinct leaf Values.
ParamLists(h, limit) ==
    { ps \in UNION { [1..k -> Ids(h)] : k \in 0..limit } :
        /\ \A i \in 1..Len(ps) : h[ps[i]].op = ""
        /\ \A i, j \in 1..Len(ps) : i # j => ps[i] # ps[j] }

\* dict.get(id(p), 0.0)
Get(d, p) == IF p \in DOMAIN d THEN d[p] ELSE 0

\* d[id(p)] = x
Put(d, p, x) == [q \in DOMAIN d \cup {p} |-> IF q = p THEN x ELSE d[q]]

\* g = p.grad; if self.weight_decay: g = g + self.weight_decay * p.data
EffectiveGrad(o, h, p) ==
    IF o.weight_decay # 0 THEN h[p].grad + o.weight_decay * h[p].data ELSE h[p].grad

\* Mutant of SGDUpdate: the velocity is not stored back into _vel.
SGDUpdateForgetsVelocity(st, p) ==
    LET g == EffectiveGrad(st.opt, st.heap, p)
    IN  IF st.opt.momentum # 0
        THEN LET v_new == st.opt.momentum * Get(st.opt.vel, p) - st.opt.lr * g
             IN  [opt  |-> st.opt,
                  heap |-> [st.heap EXCEPT ![p].data = @ + v_new]]
        ELSE [opt |-> st.opt, heap |-> [st.heap EXCEPT ![p].data = @ + (-st.opt.lr * g)]]

\* One iteration of SGD.step's loop, on st = [opt, heap].
SGDUpdate(st, p) ==
    LET g == EffectiveGrad(st.opt, st.heap, p)
    IN  IF st.opt.momentum # 0
        THEN LET v_new == st.opt.momentum * Get(st.opt.vel, p) - st.opt.lr * g
             IN  [opt  |-> [st.opt EXCEPT !.vel = Put(@, p, v_new)],
                  heap |-> [st.heap EXCEPT ![p].data = @ + v_new]]
        ELSE [opt |-> st.opt, heap |-> [st.heap EXCEPT ![p].data = @ + (-st.opt.lr * g)]]

RECURSIVE SGDStep(_, _)
SGDStep(st, i) ==
    IF i > Len(st.opt.params) THEN st ELSE SGDStep(SGDUpdate(st, st.opt.params[i]), i + 1)

\* Mutant of ZeroGradOn: `p.data = 0.0` instead of `p.grad = 0.0`.
RECURSIVE ZeroGradOnClearsData(_, _, _)
ZeroGradOnClearsData(h, ps, i) ==
    IF i > Len(ps) THEN h
    ELSE ZeroGradOnClearsData([h EXCEPT ![ps[i]].data = 0], ps, i + 1)

\* Optimizer.zero_grad: for p in self.params: p.grad = 0.0
RECURSIVE ZeroGradOn(_, _, _)
ZeroGradOn(h, ps, i) ==
    IF i > Len(ps) THEN h ELSE ZeroGradOn([h EXCEPT ![ps[i]].grad = 0], ps, i + 1)

\* History: what an optimizer call found on each parameter of its list.
RECURSIVE FoundFrom(_, _, _, _)
FoundFrom(h, vel, ps, i) ==
    IF i > Len(ps) THEN << >>
    ELSE << [node |-> ps[i], grad |-> h[ps[i]].grad, data |-> h[ps[i]].data,
             vel |-> Get(vel, ps[i])] >> \o FoundFrom(h, vel, ps, i + 1)

Found(h, vel, ps) == FoundFrom(h, vel, ps, 1)

SGDInit(limit, momenta, decays) ==
    /\ ~sgd.made
    /\ \E ps \in ParamLists(heap, limit), lr \in LearningRates, mo \in momenta, wd \in decays :
          sgd' = [made |-> TRUE, params |-> ps, lr |-> lr, momentum |-> mo,
                  weight_decay |-> wd,
                  vel |-> [p \in { ps[i] : i \in 1..Len(ps) } |-> 0]]
    /\ lastOp' = "sgd"
    /\ lastLog' = << >>
    /\ Forget
    /\ UNCHANGED <<heap, captured, steps>>

Step(limit) ==
    /\ sgd.made
    /\ steps < limit
    /\ LET res == SGDStep([opt |-> sgd, heap |-> heap], 1)
       IN  /\ heap' = res.heap
           /\ sgd' = res.opt
    /\ steps' = steps + 1
    /\ lastOp' = "step"
    /\ lastLog' = Found(heap, sgd.vel, sgd.params)
    /\ Forget
    /\ UNCHANGED captured

ZeroGrad ==
    /\ sgd.made
    /\ heap' = ZeroGradOn(heap, sgd.params, 1)
    /\ lastOp' = "zero_grad"
    /\ lastLog' = Found(heap, sgd.vel, sgd.params)
    /\ Forget
    /\ UNCHANGED <<captured, sgdVars>>

\* Mutant of SetParameters: _vel is rebuilt for the new list, as __init__ does.
SetParametersRebuildsState(limit) ==
    /\ sgd.made
    /\ \E ps \in ParamLists(heap, limit) :
          sgd' = [sgd EXCEPT !.params = ps,
                             !.vel = [p \in { ps[i] : i \in 1..Len(ps) } |-> 0]]
    /\ lastOp' = "set_parameters"
    /\ lastLog' = << >>
    /\ Forget
    /\ UNCHANGED <<heap, captured, steps>>

SetParameters(limit) ==
    /\ sgd.made
    /\ \E ps \in ParamLists(heap, limit) : sgd' = [sgd EXCEPT !.params = ps]
    /\ lastOp' = "set_parameters"
    /\ lastLog' = << >>
    /\ Forget
    /\ UNCHANGED <<heap, captured, steps>>

\* ----------------------------------------------------------- optim.py: Adam
NoAdam ==
    [made |-> FALSE, params |-> << >>, lr |-> 0, beta1 |-> 0, beta2 |-> 0, eps |-> 0,
     weight_decay |-> 0, m |-> << >>, v |-> << >>, t |-> 0]

IsSquare(x) == \E r \in 0..x : r * r = x

\* math.sqrt, on the perfect squares
Sqrt(x) == IF IsSquare(x) THEN CHOOSE r \in 0..x : r * r = x ELSE 0

\* a / b, on the operands whose quotient is an integer
Divides(b, a) == b # 0 /\ a % (IF b < 0 THEN -b ELSE b) = 0

\* a / b for a nonzero b that divides a, of either sign
Quotient(a, b) == IF b < 0 THEN (-a) \div (-b) ELSE a \div b

\* Mutant of AdamUpdate: the time step advances once per parameter.
AdamUpdatePerParameterT(st, p) ==
    LET o     == st.opt
        g     == IF o.weight_decay # 0
                 THEN st.heap[p].grad + o.weight_decay * st.heap[p].data
                 ELSE st.heap[p].grad
        m     == o.beta1 * Get(o.m, p) + (1 - o.beta1) * g
        v     == o.beta2 * Get(o.v, p) + (1 - o.beta2) * (g * g)
        c1    == 1 - IntPow(o.beta1, o.t)
        c2    == 1 - IntPow(o.beta2, o.t)
        m_hat == IF c1 = 0 THEN 0 ELSE Quotient(m, c1)
        v_hat == IF c2 = 0 THEN 0 ELSE Quotient(v, c2)
        den   == Sqrt(v_hat) + o.eps
        step  == IF den = 0 THEN 0 ELSE (-o.lr * m_hat) \div den
    IN  [opt  |-> [o EXCEPT !.m = Put(@, p, m), !.v = Put(@, p, v), !.t = @ + 1],
         heap |-> [st.heap EXCEPT ![p].data = @ + step],
         log  |-> Append(st.log,
                         [node |-> p, t |-> o.t, grad |-> g,
                          exact |-> /\ Divides(c1, m) /\ Divides(c2, v)
                                    /\ IsSquare(v_hat)
                                    /\ Divides(den, -o.lr * m_hat)])]

\* One iteration of Adam.step's loop, on st = [opt, heap, log].  The log
\* records, per parameter, the self._t its bias corrections read and whether
\* every quotient and root of the iteration is an integer.
AdamUpdate(st, p) ==
    LET o     == st.opt
        g     == IF o.weight_decay # 0
                 THEN st.heap[p].grad + o.weight_decay * st.heap[p].data
                 ELSE st.heap[p].grad
        m     == o.beta1 * Get(o.m, p) + (1 - o.beta1) * g
        v     == o.beta2 * Get(o.v, p) + (1 - o.beta2) * (g * g)
        c1    == 1 - IntPow(o.beta1, o.t)
        c2    == 1 - IntPow(o.beta2, o.t)
        m_hat == IF c1 = 0 THEN 0 ELSE Quotient(m, c1)
        v_hat == IF c2 = 0 THEN 0 ELSE Quotient(v, c2)
        den   == Sqrt(v_hat) + o.eps
        step  == IF den = 0 THEN 0 ELSE (-o.lr * m_hat) \div den
    IN  [opt  |-> [o EXCEPT !.m = Put(@, p, m), !.v = Put(@, p, v)],
         heap |-> [st.heap EXCEPT ![p].data = @ + step],
         log  |-> Append(st.log,
                         [node |-> p, t |-> o.t, grad |-> g,
                          exact |-> /\ Divides(c1, m) /\ Divides(c2, v)
                                    /\ IsSquare(v_hat)
                                    /\ Divides(den, -o.lr * m_hat)])]

RECURSIVE AdamLoop(_, _)
AdamLoop(st, i) ==
    IF i > Len(st.opt.params) THEN st ELSE AdamLoop(AdamUpdate(st, st.opt.params[i]), i + 1)

\* Adam.step: self._t += 1, then the loop over self.params.
AdamStepOn(o, h) == AdamLoop([opt |-> [o EXCEPT !.t = @ + 1], heap |-> h, log |-> << >>], 1)

AdamInitWith(limit, betasGiven) ==
    /\ ~adam.made
    /\ \E ps \in ParamLists(heap, limit), lr \in LearningRates, betas \in betasGiven,
          eps \in Epsilons :
          adam' = [made |-> TRUE, params |-> ps, lr |-> lr, beta1 |-> betas[1],
                   beta2 |-> betas[2], eps |-> eps, weight_decay |-> 0,
                   m |-> [p \in { ps[i] : i \in 1..Len(ps) } |-> 0],
                   v |-> [p \in { ps[i] : i \in 1..Len(ps) } |-> 0],
                   t |-> 0]
    /\ lastOp' = "Adam"
    /\ lastLog' = << >>
    /\ Forget
    /\ UNCHANGED <<heap, captured, steps>>

AdamInit(limit) == AdamInitWith(limit, Betas)

\* Adam.step, on the states where its arithmetic stays in the integers.
AdamStep(limit) ==
    /\ adam.made
    /\ steps < limit
    /\ LET res == AdamStepOn(adam, heap)
       IN  /\ \A k \in 1..Len(res.log) : res.log[k].exact
           /\ heap' = res.heap
           /\ adam' = res.opt
           /\ lastLog' = res.log
    /\ steps' = steps + 1
    /\ lastOp' = "adam_step"
    /\ Forget
    /\ UNCHANGED captured

\* Optimizer.zero_grad, inherited by Adam
AdamZeroGrad ==
    /\ adam.made
    /\ heap' = ZeroGradOn(heap, adam.params, 1)
    /\ lastOp' = "adam_zero_grad"
    /\ lastLog' = << >>
    /\ Forget
    /\ UNCHANGED <<captured, adam, steps>>

\* Optimizer.set_parameters, inherited by Adam
AdamSetParameters(limit) ==
    /\ adam.made
    /\ \E ps \in ParamLists(heap, limit) : adam' = [adam EXCEPT !.params = ps]
    /\ lastOp' = "adam_set_parameters"
    /\ lastLog' = << >>
    /\ Forget
    /\ UNCHANGED <<heap, captured, steps>>

\* --------------------------------------------------------------------- nn.py
\* The names MLP.__call__ has a branch for.
Activations == {"tanh", "relu", "sigmoid", "linear"}

\* The names a caller passes: known ones and one the code does not know.
ActivationNames == {"tanh", "linear", "swish"}

Initializers == {"xavier_uniform", "kaiming_uniform"}

\* random.uniform(-bound, bound): the k-th draw of a generator in state `seed`.
\* The magnitudes stand for floats inside the initializer's bound, which is
\* smaller for kaiming_uniform than for xavier_uniform at equal fan-in.
Uniform(initializer, seed, k) ==
    IF initializer = "xavier_uniform" THEN ((3 * seed + 2 * k) % 5) - 2
    ELSE ((seed + k) % 3) - 1

NoNet ==
    [kind |-> "none", layers |-> << >>, activation |-> "", final_activation |-> ""]

NoInputs == [x |-> << >>, count |-> 0]

NoResult == [op |-> "", raised |-> "", out |-> << >>, len |-> 0, x |-> << >>, before |-> 0]

NoParams == [called |-> FALSE, list |-> << >>]

\* The identities of n Values constructed in a row after `base` were.
RECURSIVE Fresh(_, _)
Fresh(base, n) == IF n = 0 THEN << >> ELSE Append(Fresh(base, n - 1), base + n)

\* The first i rows of a weight matrix whose Parameters were constructed row
\* after row once `base` Values existed.
RECURSIVE FreshRows(_, _, _)
FreshRows(base, in_features, i) ==
    IF i = 0 THEN << >>
    ELSE Append(FreshRows(base, in_features, i - 1),
                Fresh(base + (i - 1) * in_features, in_features))

\* Linear.__init__: the rows of W are drawn one after the other, each of
\* in_features Parameters; then the biases are constructed, all 0.0.
LinearNew(h, in_features, out_features, bias, initializer, seed, drawn) ==
    LET base == Len(h)
        nW   == in_features * out_features
        hW   == h \o [k \in 1..nW |->
                        NewValue(Uniform(initializer, seed, drawn + k), {}, "", 0, 0)]
        hB   == IF bias THEN hW \o [i \in 1..out_features |-> NewValue(0, {}, "", 0, 0)]
                ELSE hW
    IN  [heap  |-> hB,
         layer |-> [in_features  |-> in_features,
                    out_features |-> out_features,
                    W    |-> FreshRows(base, in_features, out_features),
                    bias |-> bias,
                    b    |-> IF bias THEN Fresh(base + nW, out_features) ELSE << >>],
         drawn |-> drawn + nW]

\* MLP.__init__'s loop from layer i on: kaiming for hidden layers, xavier for
\* the output layer; st = [heap, layers, drawn].
RECURSIVE MLPLayers(_, _, _, _)
MLPLayers(st, sizes, seed, i) ==
    IF i > Len(sizes) - 1 THEN st
    ELSE LET init == IF i < Len(sizes) - 1 THEN "kaiming_uniform" ELSE "xavier_uniform"
             made == LinearNew(st.heap, sizes[i], sizes[i + 1], TRUE, init, seed, st.drawn)
         IN  MLPLayers([heap |-> made.heap, layers |-> Append(st.layers, made.layer),
                        drawn |-> made.drawn], sizes, seed, i + 1)

\* for row in rows: params.extend(row)
RECURSIVE ExtendRows(_, _)
ExtendRows(rows, i) == IF i > Len(rows) THEN << >> ELSE rows[i] \o ExtendRows(rows, i + 1)

\* Mutant of LinearParameters: the biases are listed before the weights.
LinearParametersBiasFirst(l) == (IF l.bias THEN l.b ELSE << >>) \o ExtendRows(l.W, 1)

\* Linear.parameters
LinearParameters(l) == ExtendRows(l.W, 1) \o (IF l.bias THEN l.b ELSE << >>)

\* MLP.parameters: for layer in self.layers: params.extend(layer.parameters())
RECURSIVE MLPParameters(_, _)
MLPParameters(layers, i) ==
    IF i > Len(layers) THEN << >>
    ELSE LinearParameters(layers[i]) \o MLPParameters(layers, i + 1)

\* module.parameters()
Parameters(n) ==
    CASE n.kind = "Linear" -> LinearParameters(n.layers[1])
      [] n.kind = "MLP"    -> MLPParameters(n.layers, 1)
      [] OTHER             -> << >>

ZipLen(row, x) == IF Len(row) < Len(x) THEN Len(row) ELSE Len(x)

\* tensor_sum(w * xi for w, xi in zip(row, x)) after its `s = Value(0.0)`:
\* the generator builds one product, the loop adds it to s, and so on;
\* st = [heap, s].
RECURSIVE TensorSum(_, _, _, _)
TensorSum(st, row, x, j) ==
    IF j > ZipLen(row, x) THEN st
    ELSE LET hv == MulOn(st.heap, row[j], [isValue |-> TRUE, ref |-> x[j]])
             hs == AddOn(hv, st.s, [isValue |-> TRUE, ref |-> Len(hv)])
         IN  TensorSum([heap |-> hs, s |-> Len(hs)], row, x, j + 1)

\* One iteration of Linear.__call__'s loop: the dot product, then the bias.
LinearRow(h, l, x, i) ==
    LET h0  == Append(h, NewValue(0, {}, "", 0, 0))
        dot == TensorSum([heap |-> h0, s |-> Len(h0)], l.W[i], x, 1)
    IN  IF l.bias
        THEN LET hb == AddOn(dot.heap, dot.s, [isValue |-> TRUE, ref |-> l.b[i]])
             IN  [heap |-> hb, s |-> Len(hb)]
        ELSE dot

RECURSIVE LinearRows(_, _, _, _)
LinearRows(st, l, x, i) ==
    IF i > l.out_features THEN st
    ELSE LET r == LinearRow(st.heap, l, x, i)
         IN  LinearRows([heap |-> r.heap, out |-> Append(st.out, r.s)], l, x, i + 1)

\* Mutant of LinearCallOn: no length check, zip() truncates.
LinearCallOnUnchecked(h, l, x) ==
    LET r == LinearRows([heap |-> h, out |-> << >>], l, x, 1)
    IN  [raised |-> "", heap |-> r.heap, out |-> r.out]

\* Linear.__call__
LinearCallOn(h, l, x) ==
    IF Len(x) # l.in_features
    THEN [raised |-> "ValueError", heap |-> h, out |-> << >>]
    ELSE LET r == LinearRows([heap |-> h, out |-> << >>], l, x, 1)
         IN  [raised |-> "", heap |-> r.heap, out |-> r.out]

\* MLP.__call__ from layer idx on, for a list `out` of len Values.  The
\* activations produce floats that are not integers, so of the forward pass
\* this keeps what decides its outcome: the length of each list handed to a
\* layer (Linear.__call__'s check) and the activation branch taken after it.
RECURSIVE MLPCallOn(_, _, _)
MLPCallOn(n, len, idx) ==
    IF idx > Len(n.layers) THEN [raised |-> "", len |-> len]
    ELSE IF len # n.layers[idx].in_features THEN [raised |-> "ValueError", len |-> 0]
    ELSE LET act == IF idx = Len(n.layers) THEN n.final_activation ELSE n.activation
         IN  IF act \in Activations
             THEN MLPCallOn(n, n.layers[idx].out_features, idx + 1)
             ELSE [raised |-> "ValueError", len |-> 0]

\* The lists a caller converts with to_values: prefixes of 1.0, 3.0, 5.0, ...
InputValue(k) == 2 * k - 1

\* The last element of a list, if it has one.
Last(ps) == IF Len(ps) = 0 THEN {} ELSE {ps[Len(ps)]}

LinearInit(width) ==
    /\ net.kind = "none"
    /\ \E in_features \in 1..width, out_features \in 1..width, bias \in BOOLEAN,
          initializer \in Initializers, seed \in Seeds :
          LET made == LinearNew(heap, in_features, out_features, bias, initializer, seed, 0)
          IN  /\ net' = [NoNet EXCEPT !.kind = "Linear", !.layers = << made.layer >>]
              /\ Built(made.heap, "Linear")
    /\ UNCHANGED <<inputs, result, seenParams, calls>>

MLPInit(depth) ==
    /\ net.kind = "none"
    /\ \E sizes \in UNION { [1..k -> LayerSizes] : k \in 2..(depth + 1) },
          activation \in ActivationNames, final_activation \in ActivationNames,
          seed \in Seeds :
          LET made == MLPLayers([heap |-> heap, layers |-> << >>, drawn |-> 0],
                                sizes, seed, 1)
          IN  /\ net' = [kind |-> "MLP", layers |-> made.layers,
                         activation |-> activation,
                         final_activation |-> final_activation]
              /\ Built(made.heap, "MLP")
    /\ UNCHANGED <<inputs, result, seenParams, calls>>

\* x = to_values(xs), once the previous list has been fed to the module
ToValues(width, limit) ==
    /\ inputs.count < limit
    /\ inputs.count = calls
    /\ \E n \in 0..(width + 1) :
          /\ inputs' = [x |-> Fresh(Len(heap), n), count |-> inputs.count + 1]
          /\ Built(heap \o [k \in 1..n |-> NewValue(InputValue(k), {}, "", 0, 0)],
                   "to_values")
    /\ UNCHANGED <<net, result, seenParams, calls>>

\* y = layer(x)
LinearCall(limit) ==
    /\ net.kind = "Linear"
    /\ inputs.count = calls + 1
    /\ calls < limit
    /\ LET res == LinearCallOn(heap, net.layers[1], inputs.x)
       IN  /\ result' = [op |-> "Linear", raised |-> res.raised, out |-> res.out,
                         len |-> Len(res.out), x |-> inputs.x, before |-> Len(heap)]
           /\ Built(res.heap, "call")
    /\ calls' = calls + 1
    /\ UNCHANGED <<net, inputs, seenParams>>

\* y = model(x)
MLPCall(limit) ==
    /\ net.kind = "MLP"
    /\ inputs.count = calls + 1
    /\ calls < limit
    /\ LET res == MLPCallOn(net, Len(inputs.x), 1)
       IN  result' = [op |-> "MLP", raised |-> res.raised, out |-> << >>,
                      len |-> res.len, x |-> inputs.x, before |-> Len(heap)]
    /\ calls' = calls + 1
    /\ lastOp' = "call"
    /\ lastLog' = << >>
    /\ Forget
    /\ UNCHANGED <<heap, captured, net, inputs, seenParams>>

\* params = module.parameters()
GetParameters ==
    /\ net.kind # "none"
    /\ seenParams' = [called |-> TRUE, list |-> Parameters(net)]
    /\ lastOp' = "parameters"
    /\ lastLog' = << >>
    /\ Forget
    /\ UNCHANGED <<heap, captured, net, inputs, result, calls>>

\* Module.zero_grad: for p in self.parameters(): p.grad = 0.0
ModuleZeroGrad ==
    /\ net.kind # "none"
    /\ heap' = ZeroGradOn(heap, Parameters(net), 1)
    /\ lastOp' = "module_zero_grad"
    /\ lastLog' = Found(heap, << >>, Parameters(net))
    /\ Forget
    /\ UNCHANGED <<captured, net, inputs, result, seenParams, calls>>

\* ------------------------------------------------------------ specifications
Init ==
    /\ heap = << >>
    /\ captured = << >>
    /\ lastOp = "init"
    /\ lastRoot = 0
    /\ lastTopo = << >>
    /\ streak = 0
    /\ lastLog = << >>
    /\ lastCalls = << >>
    /\ sgd = NoSGD
    /\ steps = 0
    /\ adam = NoAdam
    /\ net = NoNet
    /\ inputs = NoInputs
    /\ result = NoResult
    /\ seenParams = NoParams
    /\ calls = 0
    /\ shelved = << >>

\* Spec: expressions are built and differentiated; no optimizer.
Next ==
    \/ Leaf(MaxNodes, LeafValues) /\ UNCHANGED <<sgdVars, adamVars, nnVars, shelved>>
    \/ Add(MaxNodes) /\ UNCHANGED <<sgdVars, adamVars, nnVars, shelved>>
    \/ Neg(MaxNodes) /\ UNCHANGED <<sgdVars, adamVars, nnVars, shelved>>
    \/ Sub(MaxNodes) /\ UNCHANGED <<sgdVars, adamVars, nnVars, shelved>>
    \/ Mul(MaxNodes) /\ UNCHANGED <<sgdVars, adamVars, nnVars, shelved>>
    \/ Backward(Ids(heap)) /\ UNCHANGED <<sgdVars, adamVars, nnVars, shelved>>

Spec == Init /\ [][Next]_vars

\* SpecTrain: products of leaves are built and differentiated, and an SGD
\* optimizer steps the leaves it manages.
TrainNext ==
    \/ Leaf(MaxTrainNodes, ParamValues) /\ UNCHANGED <<sgdVars, adamVars, nnVars, shelved>>
    \/ Mul(MaxTrainNodes) /\ UNCHANGED <<sgdVars, adamVars, nnVars, shelved>>
    \/ Backward(Ids(heap)) /\ UNCHANGED <<sgdVars, adamVars, nnVars, shelved>>
    \/ SGDInit(MaxTrainParams, {0}, {0}) /\ UNCHANGED <<adamVars, nnVars, shelved>>
    \/ Step(MaxTrainSteps) /\ UNCHANGED <<adamVars, nnVars, shelved>>
    \/ ZeroGrad /\ UNCHANGED <<adamVars, nnVars, shelved>>
    \/ SetParameters(MaxTrainParams) /\ UNCHANGED <<adamVars, nnVars, shelved>>

SpecTrain == Init /\ [][TrainNext]_vars

\* SpecSGD: leaves get their grads from backward() and zero_grad(), and an SGD
\* optimizer with any momentum and weight decay steps the leaves it manages.
SGDNext ==
    \/ Leaf(MaxParams, LeafValues) /\ UNCHANGED <<sgdVars, adamVars, nnVars, shelved>>
    \/ Backward(Ids(heap)) /\ UNCHANGED <<sgdVars, adamVars, nnVars, shelved>>
    \/ SGDInit(MaxParams, Momenta, Decays) /\ UNCHANGED <<adamVars, nnVars, shelved>>
    \/ Step(MaxSteps) /\ UNCHANGED <<adamVars, nnVars, shelved>>
    \/ ZeroGrad /\ UNCHANGED <<adamVars, nnVars, shelved>>
    \/ SetParameters(MaxParams) /\ UNCHANGED <<adamVars, nnVars, shelved>>

SpecSGD == Init /\ [][SGDNext]_vars

\* SpecPow: constant powers of leaves and of powers are built and
\* differentiated.
PowNext ==
    \/ Leaf(MaxPowNodes, PowBases) /\ UNCHANGED <<sgdVars, adamVars, nnVars, shelved>>
    \/ Pow(MaxPowNodes) /\ UNCHANGED <<sgdVars, adamVars, nnVars, shelved>>
    \/ Backward(Ids(heap)) /\ UNCHANGED <<sgdVars, adamVars, nnVars, shelved>>

SpecPow == Init /\ [][PowNext]_vars

\* SpecNN: a Linear layer or an MLP is constructed, fed lists made by
\* to_values, asked for its parameters and zeroed; backward() is called on
\* its last parameter.
NNNext ==
    \/ LinearInit(MaxWidth) /\ UNCHANGED <<sgdVars, adamVars, shelved>>
    \/ MLPInit(MaxDepth) /\ UNCHANGED <<sgdVars, adamVars, shelved>>
    \/ ToValues(MaxWidth, MaxCalls) /\ UNCHANGED <<sgdVars, adamVars, shelved>>
    \/ LinearCall(MaxCalls) /\ UNCHANGED <<sgdVars, adamVars, shelved>>
    \/ MLPCall(MaxCalls) /\ UNCHANGED <<sgdVars, adamVars, shelved>>
    \/ GetParameters /\ UNCHANGED <<sgdVars, adamVars, shelved>>
    \/ ModuleZeroGrad /\ UNCHANGED <<sgdVars, adamVars, shelved>>
    \/ Backward(Last(Parameters(net))) /\ UNCHANGED <<sgdVars, adamVars, nnVars, shelved>>

SpecNN == Init /\ [][NNNext]_vars

\* SpecAdam: leaves get their grads from backward() and zero_grad(), and an
\* Adam optimizer steps the leaves it manages.
AdamNext ==
    \/ Leaf(MaxAdamParams, ParamValues) /\ UNCHANGED <<sgdVars, adamVars, nnVars, shelved>>
    \/ Backward(Ids(heap)) /\ UNCHANGED <<sgdVars, adamVars, nnVars, shelved>>
    \/ AdamInit(MaxAdamParams) /\ UNCHANGED <<sgd, nnVars, shelved>>
    \/ AdamStep(MaxAdamSteps) /\ UNCHANGED <<sgd, nnVars, shelved>>
    \/ AdamZeroGrad /\ UNCHANGED <<sgd, nnVars, shelved>>
    \/ AdamSetParameters(MaxAdamParams) /\ UNCHANGED <<sgd, nnVars, shelved>>

SpecAdam == Init /\ [][AdamNext]_vars

\* ------------------------------------------------ history of set_parameters
\* The state an optimizer holds for identity p: whether each dict has the
\* key, and what dict.get(id(p), 0.0) returns.
SGDEntry(o, p) == << p \in DOMAIN o.vel, Get(o.vel, p) >>
AdamEntry(o, p) == << p \in DOMAIN o.m, Get(o.m, p), p \in DOMAIN o.v, Get(o.v, p) >>

\* The identities in a list of parameters.
Listed(ps) == { ps[i] : i \in 1..Len(ps) }

\* set_parameters() removed the parameters DOMAIN gone from the list: their
\* entries are noted as they are at that moment.
Shelve(sh, gone) ==
    [p \in DOMAIN sh \cup DOMAIN gone |->
        IF p \in DOMAIN gone THEN [entry |-> gone[p], resumed |-> FALSE] ELSE sh[p]]

\* step() ran over the list ps: the noted parameters among them have resumed.
Resume(sh, ps) ==
    [p \in DOMAIN sh |-> IF p \in Listed(ps) THEN [sh[p] EXCEPT !.resumed = TRUE] ELSE sh[p]]

\* SpecReplace: one optimizer, an SGD with momentum or an Adam, steps leaves
\* whose grads come from backward(), and its parameter list is replaced
\* between the steps.
ReplaceNext ==
    \/ Leaf(MaxReplaceParams, ParamValues) /\ UNCHANGED <<sgdVars, adamVars, nnVars, shelved>>
    \/ Backward(Ids(heap)) /\ UNCHANGED <<sgdVars, adamVars, nnVars, shelved>>
    \/ /\ ~adam.made
       /\ SGDInit(MaxReplaceParams, {2}, {0})
       /\ UNCHANGED <<adamVars, nnVars, shelved>>
    \/ /\ Step(MaxReplaceSteps)
       /\ shelved' = Resume(shelved, sgd.params)
       /\ UNCHANGED <<adamVars, nnVars>>
    \/ /\ SetParameters(MaxReplaceParams)
       /\ shelved' = Shelve(shelved,
                            [p \in Listed(sgd.params) \ Listed(sgd'.params) |->
                                SGDEntry(sgd, p)])
       /\ UNCHANGED <<adamVars, nnVars>>
    \/ /\ ~sgd.made
       /\ AdamInitWith(MaxReplaceParams, ReplaceBetas)
       /\ UNCHANGED <<sgd, nnVars, shelved>>
    \/ /\ AdamStep(MaxReplaceSteps)
       /\ shelved' = Resume(shelved, adam.params)
       /\ UNCHANGED <<sgd, nnVars>>
    \/ /\ AdamSetParameters(MaxReplaceParams)
       /\ shelved' = Shelve(shelved,
                            [p \in Listed(adam.params) \ Listed(adam'.params) |->
                                AdamEntry(adam, p)])
       /\ UNCHANGED <<sgd, nnVars>>

SpecReplace == Init /\ [][ReplaceNext]_vars

\* ------------------------------------------------------------------ claims
\* The nodes reachable from root via parent (_prev) edges, root included.
RECURSIVE Reach(_, _)
Reach(h, root) == {root} \cup UNION { Reach(h, c) : c \in h[root].prev }

\* The local partial derivative of node v with respect to its operand slot,
\* from the forward definition of v: v.data was computed from the operand
\* data recorded in `captured`.
Partial(h, v, slot) ==
    CASE h[v].op = "+"   -> 1
      [] h[v].op = "neg" -> -1
      [] h[v].op = "*"   -> IF slot = "self" THEN captured[v].other
                                             ELSE captured[v].self
      [] OTHER           -> 0

\* d(root.data)/d(n.data): the sum over all operand paths from root to n of
\* the product of the local partial derivatives along the path.
RECURSIVE Deriv(_, _, _)
Deriv(h, root, n) ==
    IF root = n THEN 1
    ELSE (IF h[root].self = 0 THEN 0
          ELSE Partial(h, root, "self") * Deriv(h, h[root].self, n))
       + (IF h[root].other = 0 THEN 0
          ELSE Partial(h, root, "other") * Deriv(h, h[root].other, n))

\* C1: after root.backward() on a DAG built with add, negate, subtract and
\* multiply, the grad of every node reachable from root is
\* d(root.data)/d(node.data), the path sum of the local partial derivatives.
C1_BackwardComputesDerivative ==
    lastOp = "backward" =>
        \A n \in Reach(heap, lastRoot) : heap[n].grad = Deriv(heap, lastRoot, n)

\* C1 witness: backward ran from a root that reaches a leaf both as the two
\* operands of one multiplication and along a second path (m = a*a; m + a).
C1_Witness ==
    /\ lastOp = "backward"
    /\ \E a \in Ids(heap), m \in Ids(heap) :
          /\ heap[a].op = "" /\ heap[a].data = 2
          /\ heap[m].op = "*" /\ heap[m].self = a /\ heap[m].other = a
          /\ heap[lastRoot].op = "+" /\ heap[lastRoot].prev = {m, a}
          /\ heap[a].grad = 5

\* The heap with every grad forgotten.
Forgotten(h) == [i \in Ids(h) |-> [h[i] EXCEPT !.grad = 0]]

\* C2: a backward() produces, on the nodes it reaches, the grads it would
\* produce had every grad been 0 before the call; and a second backward() in a
\* row on the same root leaves every reachable grad as the first one left it.
C2_BackwardIsIdempotent ==
    [][ lastOp' = "backward" =>
          /\ \A n \in Reach(heap, lastRoot') :
                heap'[n].grad =
                    BackwardOn(Forgotten(heap), lastRoot', lastTopo').heap[n].grad
          /\ streak' = 2 =>
                \A n \in Reach(heap, lastRoot') : heap'[n].grad = heap[n].grad ]_vars

\* C2 witness: backward ran twice in a row on a root with operands, and the
\* operands hold nonzero grads.
C2_Witness ==
    /\ streak = 2
    /\ heap[lastRoot].prev # {}
    /\ \A n \in Reach(heap, lastRoot) : heap[n].grad # 0

\* The operand data a multiplication's closure would use had it been captured
\* when the product was constructed.
CapturedOperand(c) ==
    IF c.slot = "self" THEN captured[c.node].other ELSE captured[c.node].self

\* C3: the contribution a multiply node propagates to an operand during
\* backward() is the other operand's data as it was when the multiply node
\* was constructed, times the node's grad, even after an optimizer step()
\* changed that operand.
C3_MulUsesCapturedOperand ==
    lastOp = "backward" =>
        \A k \in 1..Len(lastLog) :
            heap[lastLog[k].node].op = "*" =>
                lastLog[k].amt = CapturedOperand(lastLog[k]) * lastLog[k].out

\* C4: for a Value whose data is 0 and every constant exponent, constructing
\* base ** e and running backward raises no exception, and the contribution to
\* the base is 0 when e - 1 < 0 and e * 0^(e-1) times the node's grad otherwise.
C4_ZeroBasePowIsNoError ==
    /\ lastOp # "ZeroDivisionError"
    /\ lastOp = "backward" =>
          \A k \in 1..Len(lastLog) :
              LET c == lastLog[k]
              IN  (heap[c.node].op = "**" /\ heap[c.to].data = 0) =>
                      c.amt = (IF heap[c.node].exponent2 - 2 < 0 THEN 0
                               ELSE IF heap[c.node].exponent2 = 2 THEN 1
                               ELSE 0) * c.out

\* The managed parameters, as a set.
Managed(o) == { o.params[i] : i \in 1..Len(o.params) }

\* The effective gradient of C8 as amended, and as originally claimed.
DecayedGrad(p) == heap[p].grad + sgd.weight_decay * heap[p].data
ClaimedGrad(p) ==
    IF sgd.weight_decay > 0 THEN heap[p].grad + sgd.weight_decay * heap[p].data
    ELSE heap[p].grad

\* What C8 says one step() does, for the effective gradient G.
SGDStepApplies(G(_)) ==
    steps' = steps + 1 =>
        /\ sgd.momentum # 0 =>
              /\ \A p \in Managed(sgd) :
                    /\ Get(sgd'.vel, p) = sgd.momentum * Get(sgd.vel, p) - sgd.lr * G(p)
                    /\ heap'[p].data = heap[p].data + Get(sgd'.vel, p)
              /\ \A q \in DOMAIN sgd.vel \ Managed(sgd) :
                    q \in DOMAIN sgd'.vel /\ sgd'.vel[q] = sgd.vel[q]
        /\ sgd.momentum = 0 =>
              /\ sgd'.vel = sgd.vel
              /\ \A p \in Managed(sgd) : heap'[p].data = heap[p].data - sgd.lr * G(p)
        /\ \A q \in Ids(heap) \ Managed(sgd) : heap'[q].data = heap[q].data

C10_ZeroGradClears ==
    lastOp = "zero_grad" => \A p \in Managed(sgd) : heap[p].grad = 0

\* C10 witness: zero_grad() found a nonzero grad on a parameter that a
\* step() had already moved.
C10_Witness ==
    /\ lastOp = "zero_grad"
    /\ steps > 0
    /\ \E k \in 1..Len(lastLog) :
          lastLog[k].grad # 0 /\ heap[lastLog[k].node].grad = 0

\* C10 for Module.zero_grad: after module.zero_grad() every parameter the
\* module lists has grad 0.
ModuleZeroGradClears ==
    lastOp = "module_zero_grad" =>
        \A k \in 1..Len(Parameters(net)) : heap[Parameters(net)[k]].grad = 0

\* A state where Module.zero_grad() found a nonzero grad.
ModuleZeroGradWitness ==
    /\ lastOp = "module_zero_grad"
    /\ \E k \in 1..Len(lastLog) : lastLog[k].grad # 0

\* C5: an MLP constructed with an activation name the code does not know,
\* as activation or as final_activation and for every sizes list, never
\* returns an output list: a forward call on it raises ValueError.
C5_UnknownActivationFails ==
    (/\ net.kind = "MLP"
     /\ result.op = "MLP"
     /\ (net.activation \notin Activations \/ net.final_activation \notin Activations))
        => result.raised = "ValueError"

\* sum_j W[i][j].data * x[j].data
RECURSIVE DotData(_, _, _, _)
DotData(h, row, x, j) ==
    IF j > Len(row) THEN 0 ELSE h[row[j]].data * h[x[j]].data + DotData(h, row, x, j + 1)

\* C6: Linear.__call__ on a list whose length is not in_features raises
\* ValueError and constructs no Value; on a list of length in_features it
\* returns out_features distinct Values, the i-th holding
\* sum_j W[i][j]*x[j] + b[i] (no b[i] term for a layer without bias).
C6_LinearCallChecksLength ==
    (lastOp = "call" /\ result.op = "Linear") =>
        LET l == net.layers[1]
        IN  IF Len(result.x) # l.in_features
            THEN /\ result.raised = "ValueError"
                 /\ Len(heap) = result.before
            ELSE /\ result.raised = ""
                 /\ Len(result.out) = l.out_features
                 /\ \A i, k \in 1..Len(result.out) :
                       i # k => result.out[i] # result.out[k]
                 /\ \A i \in 1..l.out_features :
                       /\ result.out[i] \in (result.before + 1)..Len(heap)
                       /\ heap[result.out[i]].data =
                             DotData(heap, l.W[i], result.x, 1)
                                 + (IF l.bias THEN heap[l.b[i]].data ELSE 0)

\* C6 witness: a 2-by-2 layer with bias returned from a call, with a nonzero
\* output.
C6_Witness ==
    /\ lastOp = "call"
    /\ result.op = "Linear"
    /\ result.raised = ""
    /\ net.layers[1].in_features = 2
    /\ net.layers[1].out_features = 2
    /\ net.layers[1].bias
    /\ \E i \in 1..Len(result.out) : heap[result.out[i]].data # 0

\* The number of parameters of a layer, and of the layers before layer k.
Count(l) == l.in_features * l.out_features + (IF l.bias THEN l.out_features ELSE 0)

RECURSIVE Offset(_, _)
Offset(layers, k) == IF k = 1 THEN 0 ELSE Offset(layers, k - 1) + Count(layers[k - 1])

C9_AdamGlobalT ==
    /\ adam.t = steps
    /\ lastOp = "adam_step" =>
          /\ Len(lastLog) = Len(adam.params)
          /\ \A k \in 1..Len(lastLog) :
                /\ lastLog[k].node = adam.params[k]
                /\ lastLog[k].t = steps

\* C9 witness: a second step() over two parameters, one of them with a
\* nonzero grad.
C9_Witness ==
    /\ lastOp = "adam_step"
    /\ steps = 2
    /\ Len(adam.params) = 2
    /\ \E k \in 1..Len(lastLog) : lastLog[k].grad # 0

\* The consumers of n that backward(root) reaches: the reachable nodes that
\* have n as an operand.
Consumers(h, root, n) == { c \in Reach(h, root) : n \in h[c].prev }

\* The places of n in a list of nodes.
Places(seq, n) == { i \in 1..Len(seq) : seq[i] = n }

\* C11: during backward(root) the _backward of every node reachable from root
\* is invoked exactly once, and only after the _backward of every reachable
\* consumer of that node; so the grad a node propagates is the grad it holds
\* when the call returns.  On a lone leaf the call leaves grad 1.
C11_EachNodeOnceAfterConsumers ==
    lastOp = "backward" =>
        /\ \A n \in Reach(heap, lastRoot) :
              /\ Cardinality(Places(lastCalls, n)) = 1
              /\ \A c \in Consumers(heap, lastRoot, n) :
                    \A i \in Places(lastCalls, c), j \in Places(lastCalls, n) : i < j
        /\ \A k \in 1..Len(lastLog) : lastLog[k].out = heap[lastLog[k].node].grad
        /\ heap[lastRoot].prev = {} => heap[lastRoot].grad = 1

\* C11 witness: backward ran from a root that reaches a node along two
\* paths, through two consumers, and that node received a nonzero grad.
C11_Witness ==
    /\ lastOp = "backward"
    /\ \E n \in Reach(heap, lastRoot) :
          /\ Cardinality(Consumers(heap, lastRoot, n)) = 2
          /\ heap[n].grad # 0

\* A state where backward ran on a lone leaf.
C11_LoneLeaf ==
    /\ lastOp = "backward"
    /\ heap[lastRoot].prev = {}
    /\ lastCalls = << lastRoot >>

\* The state a step() should start from for parameter p: the entry noted when
\* set_parameters() removed p, if p has not been stepped since; else the
\* entry the dict holds; else zero.
StartOf(d, p, k) ==
    IF p \in DOMAIN shelved /\ ~shelved[p].resumed THEN shelved[p].entry[k]
    ELSE IF p \in DOMAIN d THEN d[p]
    ELSE 0

\* C12: set_parameters() assigns the parameter list and nothing else: no
\* _vel, _m or _v entry is added, removed or changed, Adam's _t keeps its
\* value and no Value is touched.  The entry of a removed parameter stays as
\* it was at removal while other parameters are stepped, and the next step()
\* that manages the parameter again starts from it; a managed parameter with
\* no entry starts from zero.
C12_SetParametersKeepsState ==
    [][ /\ lastOp' = "set_parameters" =>
              /\ sgd' = [sgd EXCEPT !.params = sgd'.params]
              /\ heap' = heap
        /\ lastOp' = "adam_set_parameters" =>
              /\ adam' = [adam EXCEPT !.params = adam'.params]
              /\ heap' = heap
        /\ \A p \in DOMAIN shelved' :
              ~shelved'[p].resumed =>
                  /\ sgd'.made => SGDEntry(sgd', p) = shelved'[p].entry
                  /\ adam'.made => AdamEntry(adam', p) = shelved'[p].entry
        /\ lastOp' = "step" =>
              \A p \in Listed(sgd.params) :
                  /\ sgd'.vel[p] = sgd.momentum * StartOf(sgd.vel, p, 2)
                                       - sgd.lr * heap[p].grad
                  /\ heap'[p].data = heap[p].data + sgd'.vel[p]
        /\ lastOp' = "adam_step" =>
              /\ adam'.t = adam.t + 1
              /\ \A p \in Listed(adam.params) :
                    /\ adam'.m[p] = adam.beta1 * StartOf(adam.m, p, 2)
                                        + (1 - adam.beta1) * heap[p].grad
                    /\ adam'.v[p] = adam.beta2 * StartOf(adam.v, p, 4)
                                        + (1 - adam.beta2) * (heap[p].grad * heap[p].grad)
      ]_vars

\* C12 witness: a parameter stepped with a nonzero grad was removed by
\* set_parameters(), managed again, and the second step() resumed from the
\* nonzero entry noted at its removal.
C12_Witness ==
    /\ lastOp \in {"step", "adam_step"}
    /\ steps = 2
    /\ \E p \in DOMAIN shelved :
          /\ shelved[p].resumed
          /\ shelved[p].entry[2] # 0
          /\ p \in Listed(sgd.params) \cup Listed(adam.params)
          /\ heap[p].data # 2

\* A state where an Adam step() was made while a parameter with a nonzero
\* entry was shelved, and the parameter was then managed again.
C12_AdamResumes ==
    /\ lastOp = "adam_step"
    /\ adam.t = 2
    /\ \E p \in DOMAIN shelved :
          shelved[p].resumed /\ shelved[p].entry[2] # 0 /\ adam.m[p] = -3

\* C13: backward(root) constructs no Value and changes no Value's data or
\* parent set; it leaves the grad of every node that root does not reach via
\* parent edges, consumers of root included, as it was.  A Value's data
\* changes only in a step(), and only on a parameter the optimizer manages.
C13_BackwardWritesReachableGrads ==
    [][ /\ lastOp' = "backward" =>
              /\ Len(heap') = Len(heap)
              /\ \A n \in Ids(heap) :
                    /\ heap'[n].data = heap[n].data
                    /\ heap'[n].prev = heap[n].prev
                    /\ n \notin Reach(heap, lastRoot') => heap'[n].grad = heap[n].grad
        /\ \A n \in Ids(heap) :
              heap'[n].data # heap[n].data =>
                  lastOp' = "step" /\ n \in Listed(sgd.params)
      ]_vars

\* C13 witness: backward ran from an operand of a product that holds a
\* nonzero grad from an earlier backward(); the product is not reachable from
\* the root and still holds that grad.
C13_Witness ==
    /\ lastOp = "backward"
    /\ heap[lastRoot].grad = 1
    /\ \E c \in Ids(heap) :
          /\ lastRoot \in heap[c].prev
          /\ c \notin Reach(heap, lastRoot)
          /\ heap[c].grad # 0

====
